---------------------------- MODULE Spec2Model ----------------------------
(***************************************************************************)
(* GhostTrace (src/app.js): the snapshot store, the export parser, the     *)
(* comparison engine and the part of the UI controller that drives them.   *)
(*                                                                         *)
(* Representation of JavaScript values                                     *)
(*   - a JSON value is a tagged record: JNull, JUndef, JStr(s), JNum(n),   *)
(*     JArr(items), JObj(f) with f a function from property names;         *)
(*   - a user record is [username, timestamp, href]; the parser stores     *)
(*     `x || null`, so timestamp 0 and href "" stand for null;             *)
(*   - the payloads considered carry strings in value/title/href and       *)
(*     numbers in timestamp.                                               *)
(***************************************************************************)
EXTENDS Integers, Sequences, FiniteSets, TLC

(***************************************************************************)
(* Bounds of the model.                                                    *)
(***************************************************************************)
MaxLen == 2

(***************************************************************************)
(* Strings: the usernames of the model and String.prototype.toLowerCase.   *)
(***************************************************************************)
Names == {"a", "A", "b", "B", "c", "D"}

toLowerCase(s) ==
    CASE s = "A" -> "a"
      [] s = "B" -> "b"
      [] s = "D" -> "d"
      [] OTHER -> s

User(name, ts) == [username |-> name, timestamp |-> ts, href |-> ""]

(***************************************************************************)
(* JSON values as JavaScript sees them.                                    *)
(***************************************************************************)
JNull == [t |-> "null"]
JUndef == [t |-> "undefined"]
JStr(s) == [t |-> "string", s |-> s]
JNum(n) == [t |-> "number", n |-> n]
JArr(items) == [t |-> "array", items |-> items]
JObj(f) == [t |-> "object", f |-> f]

\* ToBoolean, as `!x`, `x || y` and `if (x)` apply it
Truthy(v) ==
    CASE v.t \in {"null", "undefined"} -> FALSE
      [] v.t = "string" -> v.s # ""
      [] v.t = "number" -> v.n # 0
      [] OTHER -> TRUE

\* reading a property of null or undefined throws a TypeError
IsNullish(v) == v.t \in {"null", "undefined"}

\* v.key for a v that is not nullish; a missing property reads undefined
Get(v, key) ==
    IF v.t = "object" /\ key \in DOMAIN v.f THEN v.f[key] ELSE JUndef

\* `key in v` for an object v
HasKey(v, key) == v.t = "object" /\ key \in DOMAIN v.f

IsArray(v) == v.t = "array"

\* typeof item === 'object' && item !== null
IsObjectNotNull(v) == v.t \in {"object", "array"}

(***************************************************************************)
(* InstagramDataParser, src/app.js:187-310.  A call either returns the     *)
(* users or throws; error is the kind of the exception thrown.             *)
(***************************************************************************)
Returns(users) == [ok |-> TRUE, users |-> users, error |-> ""]
Throws(kind) == [ok |-> FALSE, users |-> <<>>, error |-> kind]

\* { username: x, timestamp: data.timestamp || null, href: data.href || null }
MakeUser(name, data) ==
    LET ts == Get(data, "timestamp")
        href == Get(data, "href")
    IN  [username |-> name.s,
         timestamp |-> IF Truthy(ts) THEN ts.n ELSE 0,
         href |-> IF Truthy(href) THEN href.s ELSE ""]

\* entries.forEach(data => { if (data.value) users.push({...}) })
RECURSIVE ValueEntries(_)
ValueEntries(entries) ==
    IF entries = <<>> THEN Returns(<<>>)
    ELSE LET data == Head(entries)
         IN  IF IsNullish(data) THEN Throws("TypeError")
             ELSE LET rest == ValueEntries(Tail(entries))
                      mine == IF Truthy(Get(data, "value"))
                              THEN <<MakeUser(Get(data, "value"), data)>>
                              ELSE <<>>
                  IN  IF rest.ok THEN Returns(mine \o rest.users) ELSE rest

\* a variant that pushes a record for an entry without a value as well
FollowersItem_KeepsValueless(item) ==
    IF IsNullish(item) THEN Throws("TypeError")
    ELSE LET sld == Get(item, "string_list_data")
         IN  IF Truthy(sld) /\ IsArray(sld)
             THEN IF \E e \in DOMAIN sld.items : IsNullish(sld.items[e])
                  THEN Throws("TypeError")
                  ELSE Returns([e \in DOMAIN sld.items |->
                          IF Truthy(Get(sld.items[e], "value"))
                          THEN MakeUser(Get(sld.items[e], "value"), sld.items[e])
                          ELSE User("", 0)])
             ELSE Returns(<<>>)

\* the body of parseFollowers' jsonData.forEach(item => ...)
FollowersItem(item) ==
    IF IsNullish(item) THEN Throws("TypeError")
    ELSE LET sld == Get(item, "string_list_data")
         IN  IF Truthy(sld) /\ IsArray(sld) THEN ValueEntries(sld.items)
             ELSE Returns(<<>>)

\* item.string_list_data?.[0] || {}
FirstEntryOrEmpty(item) ==
    LET sld == Get(item, "string_list_data")
        first == IF IsArray(sld) /\ sld.items # <<>> THEN sld.items[1] ELSE JUndef
    IN  IF Truthy(first) THEN first ELSE JObj(<<>>)

\* the body of parseFollowing's forEach over a bare array
FollowingItem(item) ==
    IF IsNullish(item) THEN Throws("TypeError")
    ELSE LET sld == Get(item, "string_list_data")
         IN  IF Truthy(Get(item, "title"))
             THEN Returns(<<MakeUser(Get(item, "title"), FirstEntryOrEmpty(item))>>)
             ELSE IF Truthy(sld) /\ IsArray(sld) THEN ValueEntries(sld.items)
             ELSE Returns(<<>>)

\* a variant in which a titled element's value entries are pushed as well
WrappedItem_TitleAndValues(item) ==
    IF IsNullish(item) THEN Throws("TypeError")
    ELSE LET sld == Get(item, "string_list_data")
             entries == IF Truthy(sld) /\ IsArray(sld) THEN ValueEntries(sld.items)
                        ELSE Returns(<<>>)
         IN  IF Truthy(Get(item, "title"))
             THEN Returns(<<MakeUser(Get(item, "title"), FirstEntryOrEmpty(item))>>
                          \o entries.users)
             ELSE IF Truthy(sld)
             THEN IF IsArray(sld) THEN entries ELSE Throws("TypeError")
             ELSE Returns(<<>>)

\* the body of parseFollowing's forEach over relationships_following: the
\* fallback calls forEach on any truthy string_list_data
WrappedItem(item) ==
    IF IsNullish(item) THEN Throws("TypeError")
    ELSE LET sld == Get(item, "string_list_data")
         IN  IF Truthy(Get(item, "title"))
             THEN Returns(<<MakeUser(Get(item, "title"), FirstEntryOrEmpty(item))>>)
             ELSE IF Truthy(sld)
             THEN IF IsArray(sld) THEN ValueEntries(sld.items) ELSE Throws("TypeError")
             ELSE Returns(<<>>)

\* items.forEach(item => body(item)), the users pushed in order
RECURSIVE ForEachItem(_, _)
ForEachItem(items, kind) ==
    IF items = <<>> THEN Returns(<<>>)
    ELSE LET one == CASE kind = "followers" -> FollowersItem(Head(items))
                      [] kind = "following" -> FollowingItem(Head(items))
                      [] OTHER -> WrappedItem(Head(items))
         IN  IF ~one.ok THEN one
             ELSE LET rest == ForEachItem(Tail(items), kind)
                  IN  IF rest.ok THEN Returns(one.users \o rest.users) ELSE rest

parseFollowers(jsonData) ==
    IF ~Truthy(jsonData) THEN Throws("empty")
    ELSE IF ~IsArray(jsonData) THEN Throws("format")
    ELSE IF jsonData.items = <<>> THEN Returns(<<>>)
    ELSE LET firstItem == jsonData.items[1]
         IN  IF IsNullish(firstItem) THEN Throws("TypeError")
             ELSE IF /\ ~Truthy(Get(firstItem, "string_list_data"))
                     /\ ~Truthy(Get(firstItem, "value"))
             THEN Throws("unrecognized")
             ELSE ForEachItem(jsonData.items, "followers")

parseFollowing(jsonData) ==
    IF ~Truthy(jsonData) THEN Throws("empty")
    ELSE IF IsArray(jsonData)
    THEN IF jsonData.items = <<>> THEN Returns(<<>>)
         ELSE LET firstItem == jsonData.items[1]
              IN  IF IsNullish(firstItem) THEN Throws("TypeError")
                  ELSE IF /\ ~Truthy(Get(firstItem, "title"))
                          /\ ~Truthy(Get(firstItem, "string_list_data"))
                          /\ ~Truthy(Get(firstItem, "value"))
                  THEN Throws("unrecognized")
                  ELSE ForEachItem(jsonData.items, "following")
    ELSE LET wrapped == Get(jsonData, "relationships_following")
         IN  IF ~Truthy(wrapped) THEN Throws("format")
             ELSE IF ~IsArray(wrapped) THEN Throws("TypeError")
             ELSE ForEachItem(wrapped.items, "wrapped")

(***************************************************************************)
(* ComparisonEngine, src/app.js:315-330.                                   *)
(***************************************************************************)
KeySet_CaseSensitive(users) == {users[i].username : i \in DOMAIN users}

\* new Set(users.map(u => u.username.toLowerCase()))
KeySet(users) == {toLowerCase(users[i].username) : i \in DOMAIN users}

FilterAbsent_Deduplicated(list, set) ==
    LET kept == SelectSeq(list, LAMBDA u : toLowerCase(u.username) \notin set)
        First == {i \in DOMAIN kept :
                    \A j \in 1..(i - 1) :
                        toLowerCase(kept[j].username) # toLowerCase(kept[i].username)}
    IN  [n \in 1..Cardinality(First) |->
            kept[CHOOSE i \in First : Cardinality({m \in First : m <= i}) = n]]

\* list.filter(u => !set.has(u.username.toLowerCase()))
FilterAbsent(list, set) ==
    SelectSeq(list, LAMBDA u : toLowerCase(u.username) \notin set)

findUnfollowers_Swapped(previousFollowers, currentFollowers) ==
    FilterAbsent(currentFollowers, KeySet(previousFollowers))

findUnfollowers(previousFollowers, currentFollowers) ==
    LET currentSet == KeySet(currentFollowers)
    IN  FilterAbsent(previousFollowers, currentSet)

findNewFollowers_Swapped(previousFollowers, currentFollowers) ==
    FilterAbsent(previousFollowers, KeySet(currentFollowers))

findNewFollowers(previousFollowers, currentFollowers) ==
    LET previousSet == KeySet(previousFollowers)
    IN  FilterAbsent(currentFollowers, previousSet)

findNotFollowingBack_Swapped(followers, following) ==
    FilterAbsent(followers, KeySet(following))

findNotFollowingBack(followers, following) ==
    LET followersSet == KeySet(followers)
    IN  FilterAbsent(following, followersSet)

(***************************************************************************)
(* DatabaseManager, src/app.js:25-182.  The snapshots object store is a    *)
(* sequence in key (id) order, which is the order getAll returns; the      *)
(* whitelist setting is a sequence, empty when the key was never written   *)
(* (its only reader, getWhitelist, returns `whitelist || []`).             *)
(***************************************************************************)
NoSnapshot == [has |-> FALSE, snap |-> [id |-> 0, date |-> 0, followers |-> <<>>, following |-> <<>>]]
SomeSnapshot(s) == [has |-> TRUE, snap |-> s]

\* Array.prototype.sort is stable: x goes after the elements dated >= x.date
RECURSIVE InsertByDateDesc(_, _)
InsertByDateDesc(sorted, x) ==
    IF sorted = <<>> THEN <<x>>
    ELSE IF Head(sorted).date >= x.date
         THEN <<Head(sorted)>> \o InsertByDateDesc(Tail(sorted), x)
         ELSE <<x>> \o sorted

\* snapshots.sort((a, b) => new Date(b.date) - new Date(a.date))
RECURSIVE SortByDateDesc(_)
SortByDateDesc(snaps) ==
    IF snaps = <<>> THEN <<>>
    ELSE InsertByDateDesc(SortByDateDesc(SubSeq(snaps, 1, Len(snaps) - 1)),
                          snaps[Len(snaps)])

\* getLatestSnapshot on what getSnapshots resolved to
getLatestSnapshot(snaps) ==
    IF Len(snaps) = 0 THEN NoSnapshot ELSE SomeSnapshot(SortByDateDesc(snaps)[1])

NewSnapshot_FixedId(snaps, date, followers, following) ==
    [id |-> 1, date |-> date, followers |-> followers, following |-> following]

\* the record store.add stores, with the key the autoIncrement generator gives
NewSnapshot(snaps, date, followers, following) ==
    [id |-> Len(snaps) + 1, date |-> date, followers |-> followers, following |-> following]

\* whitelist.includes(x)
Includes(list, x) == \E i \in DOMAIN list : list[i] = x

\* whitelist.filter(u => u !== x)
Without(list, x) == SelectSeq(list, LAMBDA u : u # x)

\* a variant that pushes without looking for the name
addToWhitelist_AlwaysPushes(whitelist, username) ==
    [save |-> TRUE, value |-> Append(whitelist, toLowerCase(username))]

\* addToWhitelist: the value it saves, or the value read when it saves nothing
addToWhitelist(whitelist, username) ==
    LET lowerUsername == toLowerCase(username)
    IN  IF ~Includes(whitelist, lowerUsername)
        THEN [save |-> TRUE, value |-> Append(whitelist, lowerUsername)]
        ELSE [save |-> FALSE, value |-> whitelist]

\* removeFromWhitelist: always saves the filtered list
removeFromWhitelist(whitelist, username) ==
    LET lowerUsername == toLowerCase(username)
    IN  [save |-> TRUE, value |-> Without(whitelist, lowerUsername)]

\* A request completes when no conflicting request of the same object store
\* was created before it and is still pending: transactions with overlapping
\* scope run in creation order unless both are read-only.
CanComplete(queue, k) ==
    \A j \in 1..(k - 1) : queue[j].kind = "r" /\ queue[k].kind = "r"

RemoveAt(queue, k) == SubSeq(queue, 1, k - 1) \o SubSeq(queue, k + 1, Len(queue))

Request(who, n, kind, ok, val) == [who |-> who, n |-> n, kind |-> kind, ok |-> ok, val |-> val]

(***************************************************************************)
(* UIController: the pure parts, src/app.js:549-556, 590-594, 705-746.     *)
(***************************************************************************)
NoFile == JUndef

\* data.every(item => typeof item === 'object' && item !== null &&
\*                    'string_list_data' in item)
EveryItemHasStringListData(data) ==
    \A i \in DOMAIN data.items :
        IsObjectNotNull(data.items[i]) /\ HasKey(data.items[i], "string_list_data")

isFollowersFile(data) == IsArray(data) /\ EveryItemHasStringListData(data)

isFollowingFile(data) ==
    \/ /\ HasKey(data, "relationships_following")
       /\ IsArray(Get(data, "relationships_following"))
    \/ IsArray(data) /\ EveryItemHasStringListData(data)

\* updateAnalyzeButton: the value it gives analyzeBtn.disabled
updateAnalyzeButton(files) ==
    ~(files.followers # NoFile \/ files.following # NoFile)

NoData ==
    [has |-> FALSE, followers |-> <<>>, following |-> <<>>, unfollowers |-> <<>>,
     newFollowers |-> <<>>, notFollowingBack |-> <<>>]

\* the users renderUserList shows for a tab (searchQuery is empty throughout)
TabUsers_WhitelistCaseSensitive(tab, data, wl) ==
    CASE tab = "unfollowers" -> data.unfollowers
      [] tab = "newFollowers" -> data.newFollowers
      [] tab = "notFollowingBack" ->
            SelectSeq(data.notFollowingBack,
                      LAMBDA u : ~Includes(wl, toLowerCase(u.username)))
      [] tab = "whitelist" ->
            SelectSeq(data.notFollowingBack, LAMBDA u : Includes(wl, u.username))
      [] tab = "followers" -> data.followers
      [] tab = "following" -> data.following
      [] OTHER -> <<>>

TabUsers(tab, data, wl) ==
    CASE tab = "unfollowers" -> data.unfollowers
      [] tab = "newFollowers" -> data.newFollowers
      [] tab = "notFollowingBack" ->
            SelectSeq(data.notFollowingBack,
                      LAMBDA u : ~Includes(wl, toLowerCase(u.username)))
      [] tab = "whitelist" ->
            SelectSeq(data.notFollowingBack,
                      LAMBDA u : Includes(wl, toLowerCase(u.username)))
      [] tab = "followers" -> data.followers
      [] tab = "following" -> data.following
      [] OTHER -> <<>>

\* renderUserList: what userList holds afterwards
renderUserList(list, tab, data, wl) ==
    IF ~data.has THEN list ELSE TabUsers(tab, data, wl)

\* updateNotFollowingBackCount: what the headline shows afterwards
updateNotFollowingBackCount(count, data, wl) ==
    IF ~data.has THEN count
    ELSE Len(SelectSeq(data.notFollowingBack,
                       LAMBDA u : ~Includes(wl, toLowerCase(u.username))))

\* loadSnapshot: the currentData it stores
loadSnapshotData(snapshot) ==
    [has |-> TRUE,
     followers |-> snapshot.followers,
     following |-> snapshot.following,
     unfollowers |-> <<>>,
     newFollowers |-> <<>>,
     notFollowingBack |-> findNotFollowingBack(snapshot.followers, snapshot.following)]

(***************************************************************************)
(* analyzeData's own computations, src/app.js:596-648.                     *)
(***************************************************************************)
\* the guard of analyzeData: both files are registered
BothFiles(files) == files.followers # NoFile /\ files.following # NoFile

ParseFailed_FollowersOnly(pf, pg) == ~pf.ok

\* lines 608-609 throw into the catch when either parser throws
ParseFailed(pf, pg) == ~pf.ok \/ ~pg.ok

Differentials_SyntheticEmpty(previousSnapshot, followers) ==
    [unfollowers |-> findUnfollowers(previousSnapshot.snap.followers, followers),
     newFollowers |-> findNewFollowers(previousSnapshot.snap.followers, followers),
     invoked |-> TRUE]

\* lines 618-623; invoked records whether the engine was called
Differentials(previousSnapshot, followers) ==
    IF previousSnapshot.has
    THEN [unfollowers |-> findUnfollowers(previousSnapshot.snap.followers, followers),
          newFollowers |-> findNewFollowers(previousSnapshot.snap.followers, followers),
          invoked |-> TRUE]
    ELSE [unfollowers |-> <<>>, newFollowers |-> <<>>, invoked |-> FALSE]

\* lines 628-634
analyzeDataResult(followers, following, diff) ==
    [has |-> TRUE,
     followers |-> followers,
     following |-> following,
     unfollowers |-> diff.unfollowers,
     newFollowers |-> diff.newFollowers,
     notFollowingBack |-> findNotFollowingBack(followers, following)]

\* displayResults: the headline it writes (line 657)
displayResultsCount(data) == Len(data.notFollowingBack)

(***************************************************************************)
(* Bounds and inputs of the application model.                             *)
(***************************************************************************)
MaxRuns == 2
MaxToggles == 2
HistoryLimit == 5

Entry(value, ts) == JObj(("value" :> JStr(value)) @@ ("timestamp" :> JNum(ts)))
SldItem(entries) == JObj("string_list_data" :> JArr(entries))
Titled(title) == JObj("title" :> JStr(title))

FollowersAB == JArr(<<SldItem(<<Entry("a", 1)>>), SldItem(<<Entry("b", 0)>>)>>)
FollowersAC == JArr(<<SldItem(<<Entry("a", 1)>>), SldItem(<<Entry("c", 0)>>)>>)
\* passes isFollowersFile, and parseFollowers throws on it
FollowersBad == JArr(<<JObj("string_list_data" :> JNull)>>)
FollowingWrapped ==
    JObj("relationships_following" :>
            JArr(<<Titled("a"), Titled("B"), Titled("c"), Titled("D")>>))
\* passes isFollowingFile, and parseFollowing throws on it
FollowingBad == JObj("relationships_following" :> JArr(<<JNull>>))

FollowersPayloads == {FollowersAC, FollowersBad}
FollowingPayloads == {FollowingWrapped, FollowingBad}

\* what an earlier session may have left in the database
EarlierSnapshot ==
    [id |-> 1, date |-> 0,
     followers |-> parseFollowers(FollowersAB).users,
     following |-> parseFollowing(FollowingWrapped).users]
InitialStores == {<<>>, <<EarlierSnapshot>>}
InitialWhitelists == {<<>>, <<"d">>}

ViewTabs == {"unfollowers", "notFollowingBack", "whitelist"}

(***************************************************************************)
(* State.                                                                  *)
(***************************************************************************)
VARIABLES
    dbAvailable,            \* db.isAvailable && db !== null, fixed by init()
    snapshots,              \* the snapshots object store
    settingsWhitelist,      \* the value of the 'whitelist' setting
    snapshotsQueue,         \* pending requests on the snapshots store
    settingsQueue,          \* pending requests on the settings store
    startup,                \* the constructor's calls that have not settled
    uploadedFiles,          \* UIController.uploadedFiles
    analyzeBtnDisabled,     \* analyzeBtn.disabled
    demoTimers,             \* pending setTimeout(() => analyzeData(), 500)
    runs,                   \* the analyzeData calls that passed the guard
    currentData,            \* UIController.currentData
    dataFrom,               \* which method stored currentData
    whitelist,              \* UIController.whitelist
    currentTab,             \* UIController.currentTab
    resultsShown,           \* !resultsSection.hidden
    notFollowingBackCount,  \* notFollowingBackCount.textContent
    userList,               \* the users rendered in userList
    historyShown,           \* how many snapshots the rendered history was read from
    toggles,                \* the toggleWhitelist calls in flight
    engineOp,               \* the engine function last applied ("none" before any)
    argA,                   \* its first argument
    argB,                   \* its second argument
    engineResult,           \* what it returned
    parserOp,               \* the parser function applied ("none" before any)
    jsonData,               \* the payload it is applied to
    parseResults,           \* what each of its calls returned or threw, in order
    whitelistCalls          \* the awaited addToWhitelist/removeFromWhitelist calls, in order

dbVars == <<dbAvailable, snapshots, settingsWhitelist, snapshotsQueue, settingsQueue>>
\* what none of the user's events changes by itself
parserVars == <<parserOp, jsonData, parseResults>>
fixedVars == <<dbAvailable, startup, engineOp, argA, argB, engineResult, parserVars,
               whitelistCalls>>
uiVars == <<startup, uploadedFiles, analyzeBtnDisabled, demoTimers, runs, currentData, dataFrom,
            whitelist, currentTab, resultsShown, notFollowingBackCount, userList,
            historyShown, toggles>>
engineVars == <<engineOp, argA, argB, engineResult>>
vars == <<dbVars, uiVars, engineVars, parserVars, whitelistCalls>>

IdleToggle == [pc |-> "idle", username |-> "", remove |-> FALSE, ok |-> TRUE, value |-> <<>>]

(***************************************************************************)
(* Initial state: init() has resolved and the UIController constructor has *)
(* returned, its un-awaited loadWhitelist and autoLoadLatest pending.      *)
(* Without a database they change nothing (no snapshot, an empty           *)
(* whitelist), so none is pending then.  The history list is taken as      *)
(* rendered when loadHistory is called: historyShown is the number of      *)
(* snapshots it read.  index.html is not among the sources; with no file   *)
(* registered a click on Analyze changes nothing, whatever the button's    *)
(* initial state.                                                          *)
(***************************************************************************)
Init ==
    /\ dbAvailable \in BOOLEAN
    /\ snapshots \in (IF dbAvailable THEN InitialStores ELSE {<<>>})
    /\ settingsWhitelist \in (IF dbAvailable THEN InitialWhitelists ELSE {<<>>})
    /\ snapshotsQueue = <<>>
    /\ settingsQueue = <<>>
    /\ startup = IF dbAvailable THEN {"loadWhitelist", "autoLoadLatest"} ELSE {}
    /\ uploadedFiles = [followers |-> NoFile, following |-> NoFile]
    /\ analyzeBtnDisabled = TRUE
    /\ demoTimers = 0
    /\ runs = <<>>
    /\ currentData = NoData
    /\ dataFrom = "none"
    /\ whitelist = <<>>
    /\ currentTab = "unfollowers"
    /\ resultsShown = FALSE
    /\ notFollowingBackCount = 0
    /\ userList = <<>>
    /\ historyShown = Len(snapshots)
    /\ toggles = [k \in 1..MaxToggles |-> IdleToggle]
    /\ engineOp = "none"
    /\ argA = <<>>
    /\ argB = <<>>
    /\ engineResult = <<>>
    /\ parserOp = "none"
    /\ jsonData = JNull
    /\ parseResults = <<>>
    /\ whitelistCalls = <<>>

\* When an event of the user can be dispatched.  The user acts once the
\* constructor's reads have settled.  Without a database every await resolves
\* in a microtask, so a call runs to its end before the next event.
Quiescent ==
    /\ startup = {}
    /\ \/ dbAvailable
       \/ /\ \A i \in DOMAIN runs : runs[i].pc \in {"done", "failed"}
          /\ \A k \in DOMAIN toggles : toggles[k].pc = "idle"

\* the position of a caller's pending request in a queue (0 when none)
Pending(queue, who, n) ==
    IF \E k \in DOMAIN queue : queue[k].who = who /\ queue[k].n = n
    THEN CHOOSE k \in DOMAIN queue :
            /\ queue[k].who = who /\ queue[k].n = n
            /\ \A j \in 1..(k - 1) : ~(queue[j].who = who /\ queue[j].n = n)
    ELSE 0

(***************************************************************************)
(* Uploads, src/app.js:429-459, 506-528, 580-584.                          *)
(***************************************************************************)
\* processFile once file.text() has resolved and JSON.parse has returned data
ProcessFile(data) ==
    /\ Quiescent
    /\ \/ /\ isFollowersFile(data)
          /\ uploadedFiles' = [uploadedFiles EXCEPT !.followers = data]
          /\ analyzeBtnDisabled' = updateAnalyzeButton(uploadedFiles')
       \/ /\ ~isFollowersFile(data)
          /\ isFollowingFile(data)
          /\ uploadedFiles' = [uploadedFiles EXCEPT !.following = data]
          /\ analyzeBtnDisabled' = updateAnalyzeButton(uploadedFiles')
    /\ UNCHANGED <<dbVars, fixedVars, demoTimers, runs, currentData, dataFrom, whitelist,
                   currentTab, resultsShown, notFollowingBackCount, userList,
                   historyShown, toggles>>

\* the click handler of a file's remove button
RemoveFile(type) ==
    /\ Quiescent
    /\ uploadedFiles[type] # NoFile
    /\ uploadedFiles' = [uploadedFiles EXCEPT ![type] = NoFile]
    /\ analyzeBtnDisabled' = updateAnalyzeButton(uploadedFiles')
    /\ UNCHANGED <<dbVars, fixedVars, demoTimers, runs, currentData, dataFrom, whitelist,
                   currentTab, resultsShown, notFollowingBackCount, userList,
                   historyShown, toggles>>

\* loadDemoData once both fetches have resolved with the demo files
LoadDemoData(followersData, followingData) ==
    /\ Quiescent
    /\ Len(runs) + demoTimers < MaxRuns
    /\ uploadedFiles' = [followers |-> followersData, following |-> followingData]
    /\ analyzeBtnDisabled' = updateAnalyzeButton(uploadedFiles')
    /\ demoTimers' = demoTimers + 1
    /\ UNCHANGED <<dbVars, fixedVars, runs, currentData, dataFrom, whitelist,
                   currentTab, resultsShown, notFollowingBackCount, userList,
                   historyShown, toggles>>

(***************************************************************************)
(* analyzeData, src/app.js:596-648, in the three pieces its awaits cut it  *)
(* into.  A request's outcome is fixed when its transaction is created;    *)
(* the caller resumes when the request completes.                          *)
(***************************************************************************)
NewRun(files, pf, pg) ==
    [pc |-> "failed", cause |-> "parse", files |-> files,
     followers |-> pf.users, following |-> pg.users,
     ok |-> TRUE, previousSnapshot |-> NoSnapshot, emptyAtRead |-> TRUE,
     savedId |-> 0, unfollowers |-> <<>>, newFollowers |-> <<>>, invoked |-> FALSE]

\* the dates new Date() may give a snapshot: not before the last one stored
\* in this session, and after every one stored by an earlier session
DatesNow ==
    LET last == IF snapshots = <<>> THEN 0 ELSE snapshots[Len(snapshots)].date
    IN  IF last = 0 THEN {1} ELSE {last, last + 1}

\* lines 597-612: the guard, both parsers, the call of getLatestSnapshot;
\* ok: whether the getAll request will succeed
analyzeData(ok) ==
    LET pf == parseFollowers(uploadedFiles.followers)
        pg == parseFollowing(uploadedFiles.following)
        me == Len(runs) + 1
    IN  IF ParseFailed(pf, pg)
        THEN /\ runs' = Append(runs, NewRun(uploadedFiles, pf, pg))
             /\ analyzeBtnDisabled' = FALSE
             /\ UNCHANGED snapshotsQueue
        ELSE /\ analyzeBtnDisabled' = TRUE
             /\ IF ~dbAvailable
                THEN /\ runs' = Append(runs, [NewRun(uploadedFiles, pf, pg) EXCEPT
                                  !.pc = "awaitLatest", !.cause = ""])
                     /\ UNCHANGED snapshotsQueue
                ELSE /\ runs' = Append(runs, [NewRun(uploadedFiles, pf, pg) EXCEPT
                                  !.pc = "awaitLatest", !.cause = "", !.ok = ok,
                                  !.previousSnapshot =
                                      IF ok THEN getLatestSnapshot(snapshots) ELSE NoSnapshot,
                                  !.emptyAtRead = (snapshots = <<>>)])
                     /\ snapshotsQueue' = Append(snapshotsQueue, Request("run", me, "r", ok, <<>>))

\* a click on the Analyze button
ClickAnalyze(ok) ==
    /\ Quiescent
    /\ ~analyzeBtnDisabled
    /\ BothFiles(uploadedFiles)
    /\ Len(runs) < MaxRuns
    /\ analyzeData(ok)
    /\ UNCHANGED <<fixedVars, snapshots, settingsWhitelist, settingsQueue,
                   uploadedFiles, demoTimers, currentData, dataFrom, whitelist, currentTab,
                   resultsShown, notFollowingBackCount, userList, historyShown, toggles>>

\* the timer loadDemoData set fires; without both files analyzeData returns
DemoTimerFires(ok) ==
    /\ Quiescent
    /\ demoTimers > 0
    /\ demoTimers' = demoTimers - 1
    /\ IF BothFiles(uploadedFiles)
       THEN Len(runs) < MaxRuns /\ analyzeData(ok)
       ELSE UNCHANGED <<runs, analyzeBtnDisabled, snapshotsQueue>>
    /\ UNCHANGED <<fixedVars, snapshots, settingsWhitelist, settingsQueue,
                   uploadedFiles, currentData, dataFrom, whitelist, currentTab,
                   resultsShown, notFollowingBackCount, userList, historyShown, toggles>>

\* lines 612-615: getLatestSnapshot has settled; saveSnapshot is called;
\* ok: whether the add request will succeed, date: what new Date() gives
AnalyzeSave(i, ok) ==
    /\ i \in DOMAIN runs
    /\ runs[i].pc = "awaitLatest"
    /\ \E date \in DatesNow :
       LET k == Pending(snapshotsQueue, "run", i)
           queue == IF k = 0 THEN snapshotsQueue ELSE RemoveAt(snapshotsQueue, k)
       IN  /\ dbAvailable => k # 0 /\ CanComplete(snapshotsQueue, k)
           /\ IF ~runs[i].ok
              THEN /\ runs' = [runs EXCEPT ![i].pc = "failed", ![i].cause = "read"]
                   /\ analyzeBtnDisabled' = FALSE
                   /\ snapshotsQueue' = queue
                   /\ UNCHANGED snapshots
              ELSE IF ~dbAvailable
              THEN /\ runs' = [runs EXCEPT ![i].pc = "awaitSave"]
                   /\ UNCHANGED <<snapshots, snapshotsQueue, analyzeBtnDisabled>>
              ELSE LET snapshot == NewSnapshot(snapshots, date, runs[i].followers,
                                               runs[i].following)
                   IN  /\ snapshots' = IF ok THEN Append(snapshots, snapshot) ELSE snapshots
                       /\ runs' = [runs EXCEPT ![i].pc = "awaitSave", ![i].ok = ok,
                                               ![i].savedId = IF ok THEN snapshot.id ELSE 0]
                       /\ snapshotsQueue' = Append(queue, Request("run", i, "w", ok, <<>>))
                       /\ UNCHANGED analyzeBtnDisabled
    /\ UNCHANGED <<fixedVars, settingsWhitelist, settingsQueue, uploadedFiles,
                   demoTimers, currentData, dataFrom, whitelist, currentTab, resultsShown,
                   notFollowingBackCount, userList, historyShown, toggles>>

\* lines 617-647: saveSnapshot has settled; the comparisons, currentData,
\* displayResults, loadHistory, and the finally block
AnalyzeFinish(i) ==
    /\ i \in DOMAIN runs
    /\ runs[i].pc = "awaitSave"
    /\ LET k == Pending(snapshotsQueue, "run", i)
           queue == IF k = 0 THEN snapshotsQueue ELSE RemoveAt(snapshotsQueue, k)
           diff == Differentials(runs[i].previousSnapshot, runs[i].followers)
           data == analyzeDataResult(runs[i].followers, runs[i].following, diff)
       IN  /\ dbAvailable => k # 0 /\ CanComplete(snapshotsQueue, k)
           /\ analyzeBtnDisabled' = FALSE
           /\ IF ~runs[i].ok
              THEN /\ runs' = [runs EXCEPT ![i].pc = "failed", ![i].cause = "write"]
                   /\ snapshotsQueue' = queue
                   /\ UNCHANGED <<currentData, dataFrom, resultsShown,
                                  notFollowingBackCount, userList, historyShown>>
              ELSE /\ runs' = [runs EXCEPT ![i].pc = "done",
                                           ![i].unfollowers = diff.unfollowers,
                                           ![i].newFollowers = diff.newFollowers,
                                           ![i].invoked = diff.invoked]
                   /\ currentData' = data
                   /\ dataFrom' = "analyzeData"
                   /\ resultsShown' = TRUE
                   /\ notFollowingBackCount' = displayResultsCount(data)
                   /\ userList' = renderUserList(userList, currentTab, data, whitelist)
                   /\ historyShown' = Len(snapshots)
                   /\ snapshotsQueue' = queue
    /\ UNCHANGED <<fixedVars, snapshots, settingsWhitelist, settingsQueue,
                   uploadedFiles, demoTimers, whitelist, currentTab, toggles>>

(***************************************************************************)
(* loadWhitelist, autoLoadLatest, loadSnapshot, src/app.js:681-683,        *)
(* 846-882.                                                                *)
(***************************************************************************)
\* loadWhitelist's getWhitelist has resolved
LoadWhitelistDone ==
    /\ "loadWhitelist" \in startup
    /\ startup' = startup \ {"loadWhitelist"}
    /\ whitelist' = settingsWhitelist
    /\ UNCHANGED <<dbVars, engineVars, parserVars, whitelistCalls, uploadedFiles, analyzeBtnDisabled, demoTimers, runs,
                   currentData, dataFrom, currentTab, resultsShown, notFollowingBackCount,
                   userList, historyShown, toggles>>

\* loadSnapshot(snapshot): currentData, displayResults, then
\* updateNotFollowingBackCount
loadSnapshot(snapshot) ==
    /\ currentData' = loadSnapshotData(snapshot)
    /\ dataFrom' = "loadSnapshot"
    /\ resultsShown' = TRUE
    /\ userList' = renderUserList(userList, currentTab, currentData', whitelist)
    /\ notFollowingBackCount' =
          updateNotFollowingBackCount(displayResultsCount(currentData'), currentData',
                                      whitelist)

\* autoLoadLatest's getLatestSnapshot has resolved
AutoLoadLatestDone ==
    /\ "autoLoadLatest" \in startup
    /\ startup' = startup \ {"autoLoadLatest"}
    /\ LET latestSnapshot == getLatestSnapshot(snapshots)
       IN  IF latestSnapshot.has
           THEN loadSnapshot(latestSnapshot.snap)
           ELSE UNCHANGED <<currentData, dataFrom, resultsShown, userList,
                            notFollowingBackCount>>
    /\ UNCHANGED <<dbVars, engineVars, parserVars, whitelistCalls, uploadedFiles, analyzeBtnDisabled, demoTimers, runs,
                   whitelist, currentTab, historyShown, toggles>>

\* the snapshots the history list offers: sorted.slice(0, 5)
HistoryItems ==
    LET sorted == SortByDateDesc(SubSeq(snapshots, 1, historyShown))
    IN  SubSeq(sorted, 1, IF Len(sorted) < HistoryLimit THEN Len(sorted) ELSE HistoryLimit)

\* a click on a history item's Load button
ClickLoadSnapshot(n) ==
    /\ Quiescent
    /\ n \in DOMAIN HistoryItems
    /\ loadSnapshot(HistoryItems[n])
    /\ UNCHANGED <<dbVars, fixedVars, uploadedFiles, analyzeBtnDisabled, demoTimers, runs,
                   whitelist, currentTab, historyShown, toggles>>

(***************************************************************************)
(* switchTab and toggleWhitelist, src/app.js:669-703, toggleWhitelist in   *)
(* the three pieces its awaits cut it into.                                *)
(***************************************************************************)
SwitchTab(tab) ==
    /\ Quiescent
    /\ tab # currentTab
    /\ currentTab' = tab
    /\ userList' = renderUserList(userList, tab, currentData, whitelist)
    /\ UNCHANGED <<dbVars, fixedVars, uploadedFiles, analyzeBtnDisabled, demoTimers, runs,
                   currentData, dataFrom, whitelist, resultsShown, notFollowingBackCount,
                   historyShown, toggles>>

\* the slot a new call takes
FreeToggle(k) ==
    /\ toggles[k].pc = "idle"
    /\ \A j \in 1..(k - 1) : toggles[j].pc # "idle"

\* lines 687-693 and getWhitelist's call of getSetting: a click on the
\* whitelist button of a rendered user; ok: whether the get request will succeed
ToggleStart(k, username, ok) ==
    /\ Quiescent
    /\ k \in DOMAIN toggles
    /\ FreeToggle(k)
    /\ currentTab \in {"notFollowingBack", "whitelist"}
    /\ \E n \in DOMAIN userList : userList[n].username = username
    /\ toggles' = [toggles EXCEPT ![k] =
          [pc |-> "awaitGet", username |-> username,
           remove |-> Includes(whitelist, toLowerCase(username)),
           ok |-> (~dbAvailable \/ ok),
           value |-> IF dbAvailable /\ ok THEN settingsWhitelist ELSE <<>>]]
    /\ settingsQueue' =
          IF dbAvailable THEN Append(settingsQueue, Request("toggle", k, "r", ok, <<>>))
          ELSE settingsQueue
    /\ UNCHANGED <<fixedVars, snapshots, settingsWhitelist, snapshotsQueue, uploadedFiles,
                   analyzeBtnDisabled, demoTimers, runs, currentData, dataFrom, whitelist,
                   currentTab, resultsShown, notFollowingBackCount, userList, historyShown>>

\* lines 690-691 or 694-695, then renderUserList and
\* updateNotFollowingBackCount
ToggleEffects(k) ==
    LET lowerUsername == toLowerCase(toggles[k].username)
    IN  /\ whitelist' = IF toggles[k].remove THEN Without(whitelist, lowerUsername)
                        ELSE Append(whitelist, lowerUsername)
        /\ userList' = renderUserList(userList, currentTab, currentData, whitelist')
        /\ notFollowingBackCount' =
              updateNotFollowingBackCount(notFollowingBackCount, currentData, whitelist')

\* getWhitelist has settled inside addToWhitelist or removeFromWhitelist;
\* ok: whether the put request will succeed
ToggleSave(k, ok) ==
    /\ k \in DOMAIN toggles
    /\ toggles[k].pc = "awaitGet"
    /\ LET q == Pending(settingsQueue, "toggle", k)
           queue == IF q = 0 THEN settingsQueue ELSE RemoveAt(settingsQueue, q)
           op == IF toggles[k].remove
                 THEN removeFromWhitelist(toggles[k].value, toggles[k].username)
                 ELSE addToWhitelist(toggles[k].value, toggles[k].username)
       IN  /\ dbAvailable => q # 0 /\ CanComplete(settingsQueue, q)
           /\ IF ~toggles[k].ok
              THEN /\ toggles' = [toggles EXCEPT ![k] = IdleToggle]
                   /\ settingsQueue' = queue
                   /\ UNCHANGED <<settingsWhitelist, whitelist, userList,
                                  notFollowingBackCount>>
              ELSE IF ~op.save
              THEN /\ toggles' = [toggles EXCEPT ![k] = IdleToggle]
                   /\ settingsQueue' = queue
                   /\ ToggleEffects(k)
                   /\ UNCHANGED settingsWhitelist
              ELSE /\ toggles' = [toggles EXCEPT ![k].pc = "awaitPut",
                                                 ![k].ok = (~dbAvailable \/ ok)]
                   /\ settingsWhitelist' =
                         IF dbAvailable /\ ok THEN op.value ELSE settingsWhitelist
                   /\ settingsQueue' =
                         IF dbAvailable THEN Append(queue, Request("toggle", k, "w", ok, <<>>))
                         ELSE queue
                   /\ UNCHANGED <<whitelist, userList, notFollowingBackCount>>
    /\ UNCHANGED <<fixedVars, snapshots, snapshotsQueue, uploadedFiles, analyzeBtnDisabled,
                   demoTimers, runs, currentData, dataFrom, currentTab, resultsShown,
                   historyShown>>

\* saveSetting has settled
ToggleFinish(k) ==
    /\ k \in DOMAIN toggles
    /\ toggles[k].pc = "awaitPut"
    /\ LET q == Pending(settingsQueue, "toggle", k)
       IN  /\ dbAvailable => q # 0 /\ CanComplete(settingsQueue, q)
           /\ settingsQueue' = IF q = 0 THEN settingsQueue ELSE RemoveAt(settingsQueue, q)
    /\ toggles' = [toggles EXCEPT ![k] = IdleToggle]
    /\ IF toggles[k].ok
       THEN ToggleEffects(k)
       ELSE UNCHANGED <<whitelist, userList, notFollowingBackCount>>
    /\ UNCHANGED <<fixedVars, snapshots, settingsWhitelist, snapshotsQueue, uploadedFiles,
                   analyzeBtnDisabled, demoTimers, runs, currentData, dataFrom, currentTab,
                   resultsShown, historyShown>>

(***************************************************************************)
(* Specifications.  Spec: uploads, analysis runs and the snapshot store,   *)
(* storage requests failing or not.  SpecDemo: Spec with the Demo button.  *)
(* SpecView: the tabs and the whitelist over a loaded snapshot, reads of   *)
(* the whitelist setting failing or not, its writes succeeding.            *)
(***************************************************************************)
Startup ==
    \/ LoadWhitelistDone
    \/ AutoLoadLatestDone

Next ==
    \/ Startup
    \/ \E data \in FollowersPayloads \cup FollowingPayloads : ProcessFile(data)
    \/ \E type \in {"followers", "following"} : RemoveFile(type)
    \/ \E ok \in BOOLEAN : ClickAnalyze(ok)
    \/ \E i \in 1..MaxRuns, ok \in BOOLEAN : AnalyzeSave(i, ok)
    \/ \E i \in 1..MaxRuns : AnalyzeFinish(i)
    \/ \E n \in 1..HistoryLimit : ClickLoadSnapshot(n)

Spec == Init /\ [][Next]_vars

NextDemo ==
    \/ Next
    \/ LoadDemoData(FollowersAC, FollowingWrapped)
    \/ \E ok \in BOOLEAN : DemoTimerFires(ok)

SpecDemo == Init /\ [][NextDemo]_vars

NextView ==
    \/ Startup
    \/ \E n \in 1..HistoryLimit : ClickLoadSnapshot(n)
    \/ \E tab \in ViewTabs : SwitchTab(tab)
    \/ \E k \in 1..MaxToggles, username \in Names, ok \in BOOLEAN : ToggleStart(k, username, ok)
    \/ \E k \in 1..MaxToggles : ToggleSave(k, TRUE)
    \/ \E k \in 1..MaxToggles : ToggleFinish(k)

SpecView == Init /\ [][NextView]_vars

(***************************************************************************)
(* Uploads alone: files of every accepted shape, and rejected ones,        *)
(* registered and removed; src/app.js:506-556, 580-584.                    *)
(***************************************************************************)
\* a following export as a bare sequence: each element carries title and a
\* single-entry string_list_data with timestamp and href
FollowingBare ==
    JArr(<<JObj(("title" :> JStr("a")) @@
                ("string_list_data" :>
                    JArr(<<JObj(("timestamp" :> JNum(1)) @@ ("href" :> JStr("h")))>>)))>>)

UploadPayloads ==
    FollowersPayloads \cup FollowingPayloads
        \cup {FollowersAB, FollowingBare, JArr(<<>>),
              JObj("relationships_following" :> JArr(<<Titled("a"), Titled("c")>>)),
              JObj("foo" :> JStr("bar"))}

NextUpload ==
    \/ Startup
    \/ \E data \in UploadPayloads : ProcessFile(data)
    \/ \E type \in {"followers", "following"} : RemoveFile(type)

SpecUpload == Init /\ [][NextUpload]_vars

(***************************************************************************)
(* The engine as a pure function: inputs drawn from bounded sets.          *)
(***************************************************************************)
EngineUsers ==
    {User("a", 0), User("A", 0), User("a", 1), User("b", 0), User("c", 0)}

SeqsUpTo(S, n) == UNION {[1..k -> S] : k \in 0..n}

EngineInit ==
    /\ dbAvailable = FALSE
    /\ snapshots = <<>>
    /\ settingsWhitelist = <<>>
    /\ snapshotsQueue = <<>>
    /\ settingsQueue = <<>>
    /\ uploadedFiles = [followers |-> NoFile, following |-> NoFile]
    /\ analyzeBtnDisabled = TRUE
    /\ demoTimers = 0
    /\ runs = <<>>
    /\ currentData = NoData
    /\ dataFrom = "none"
    /\ whitelist = <<>>
    /\ currentTab = "unfollowers"
    /\ resultsShown = FALSE
    /\ notFollowingBackCount = 0
    /\ userList = <<>>
    /\ historyShown = 0
    /\ startup = {}
    /\ toggles = [k \in 1..MaxToggles |-> IdleToggle]
    /\ engineOp = "none"
    /\ argA \in SeqsUpTo(EngineUsers, MaxLen)
    /\ argB \in SeqsUpTo(EngineUsers, MaxLen)
    /\ engineResult = <<>>
    /\ parserOp = "none"
    /\ jsonData = JNull
    /\ parseResults = <<>>
    /\ whitelistCalls = <<>>

CallFindUnfollowers ==
    /\ engineOp = "none"
    /\ engineOp' = "findUnfollowers"
    /\ engineResult' = findUnfollowers(argA, argB)
    /\ UNCHANGED <<argA, argB, dbVars, uiVars, parserVars, whitelistCalls>>

CallFindNewFollowers ==
    /\ engineOp = "none"
    /\ engineOp' = "findNewFollowers"
    /\ engineResult' = findNewFollowers(argA, argB)
    /\ UNCHANGED <<argA, argB, dbVars, uiVars, parserVars, whitelistCalls>>

CallFindNotFollowingBack ==
    /\ engineOp = "none"
    /\ engineOp' = "findNotFollowingBack"
    /\ engineResult' = findNotFollowingBack(argA, argB)
    /\ UNCHANGED <<argA, argB, dbVars, uiVars, parserVars, whitelistCalls>>

EngineNext ==
    \/ CallFindUnfollowers
    \/ CallFindNewFollowers
    \/ CallFindNotFollowingBack

SpecEngine == EngineInit /\ [][EngineNext]_vars

(***************************************************************************)
(* The parser as a pure function: payloads drawn from bounded sets, each   *)
(* normalized up to MaxCalls times.                                        *)
(***************************************************************************)
MaxItems == 2
MaxEntries == 1
MaxCalls == 2

\* entries of a string_list_data: with value and timestamp, without value,
\* and null
ParserEntries ==
    {Entry("a", 1),
     JObj(("timestamp" :> JNum(1)) @@ ("href" :> JStr("h"))),
     JNull}

\* what a string_list_data property may hold: a sequence of entries, or a
\* string
StringListDatas ==
    {JArr(l) : l \in SeqsUpTo(ParserEntries, MaxEntries)} \cup {JStr("x")}

\* elements of an export: with or without title, with or without
\* string_list_data, with a value only, with nothing, or null
ParserItems ==
    {JObj("string_list_data" :> sld) : sld \in StringListDatas}
    \cup {JObj(("title" :> JStr("c")) @@ ("string_list_data" :> sld)) :
            sld \in StringListDatas}
    \cup {JObj("title" :> JStr("c")), JObj("value" :> JStr("a")),
          JObj("foo" :> JStr("bar")), JNull}

ParserPayloads ==
    {JArr(l) : l \in SeqsUpTo(ParserItems, MaxItems)}
    \cup {JObj("relationships_following" :> JArr(l)) : l \in SeqsUpTo(ParserItems, MaxItems)}
    \cup {JNull, JStr("x"), JNum(1), JObj("foo" :> JStr("bar")),
          JObj("relationships_following" :> JStr("x")),
          JObj("relationships_following" :> JObj("foo" :> JStr("bar"))),
          JObj("relationships_following" :> JNull)}

ParserInit ==
    /\ dbAvailable = FALSE
    /\ snapshots = <<>>
    /\ settingsWhitelist = <<>>
    /\ snapshotsQueue = <<>>
    /\ settingsQueue = <<>>
    /\ uploadedFiles = [followers |-> NoFile, following |-> NoFile]
    /\ analyzeBtnDisabled = TRUE
    /\ demoTimers = 0
    /\ runs = <<>>
    /\ currentData = NoData
    /\ dataFrom = "none"
    /\ whitelist = <<>>
    /\ currentTab = "unfollowers"
    /\ resultsShown = FALSE
    /\ notFollowingBackCount = 0
    /\ userList = <<>>
    /\ historyShown = 0
    /\ startup = {}
    /\ toggles = [k \in 1..MaxToggles |-> IdleToggle]
    /\ engineOp = "none"
    /\ argA = <<>>
    /\ argB = <<>>
    /\ engineResult = <<>>
    /\ parserOp = "none"
    /\ jsonData \in ParserPayloads
    /\ parseResults = <<>>
    /\ whitelistCalls = <<>>

CallParseFollowers ==
    /\ parserOp \in {"none", "parseFollowers"}
    /\ Len(parseResults) < MaxCalls
    /\ parserOp' = "parseFollowers"
    /\ parseResults' = Append(parseResults, parseFollowers(jsonData))
    /\ UNCHANGED <<jsonData, dbVars, uiVars, engineVars, whitelistCalls>>

CallParseFollowing ==
    /\ parserOp \in {"none", "parseFollowing"}
    /\ Len(parseResults) < MaxCalls
    /\ parserOp' = "parseFollowing"
    /\ parseResults' = Append(parseResults, parseFollowing(jsonData))
    /\ UNCHANGED <<jsonData, dbVars, uiVars, engineVars, whitelistCalls>>

ParserNext ==
    \/ CallParseFollowers
    \/ CallParseFollowing

SpecParser == ParserInit /\ [][ParserNext]_vars

(***************************************************************************)
(* DatabaseManager's whitelist methods called one after the other, each    *)
(* awaited: src/app.js:157-176 over getSetting and saveSetting, 128-154.   *)
(* A call is recorded with the persisted whitelist it found.               *)
(***************************************************************************)
WhitelistInit ==
    /\ dbAvailable \in BOOLEAN
    /\ snapshots = <<>>
    /\ settingsWhitelist \in (IF dbAvailable THEN InitialWhitelists ELSE {<<>>})
    /\ snapshotsQueue = <<>>
    /\ settingsQueue = <<>>
    /\ uploadedFiles = [followers |-> NoFile, following |-> NoFile]
    /\ analyzeBtnDisabled = TRUE
    /\ demoTimers = 0
    /\ runs = <<>>
    /\ currentData = NoData
    /\ dataFrom = "none"
    /\ whitelist = <<>>
    /\ currentTab = "unfollowers"
    /\ resultsShown = FALSE
    /\ notFollowingBackCount = 0
    /\ userList = <<>>
    /\ historyShown = 0
    /\ startup = {}
    /\ toggles = [k \in 1..MaxToggles |-> IdleToggle]
    /\ engineOp = "none"
    /\ argA = <<>>
    /\ argB = <<>>
    /\ engineResult = <<>>
    /\ parserOp = "none"
    /\ jsonData = JNull
    /\ parseResults = <<>>
    /\ whitelistCalls = <<>>

\* getWhitelist: getSetting('whitelist') || [], null without a database
getWhitelist == IF dbAvailable THEN settingsWhitelist ELSE <<>>

\* what an awaited call leaves persisted; getOk, putOk: whether its get and
\* its put request succeed.  saveSetting stores nothing without a database.
Persisted(op, getOk, putOk) ==
    IF dbAvailable /\ getOk /\ op.save /\ putOk THEN op.value ELSE settingsWhitelist

\* whether the call resolved
Resolved(op, getOk, putOk) == ~dbAvailable \/ (getOk /\ (op.save => putOk))

CallAddToWhitelist(username, getOk, putOk) ==
    /\ Len(whitelistCalls) < MaxCalls
    /\ LET op == addToWhitelist(getWhitelist, username)
       IN  /\ settingsWhitelist' = Persisted(op, getOk, putOk)
           /\ whitelistCalls' = Append(whitelistCalls,
                 [op |-> [method |-> "addToWhitelist", username |-> username],
                  before |-> settingsWhitelist,
                  ok |-> Resolved(op, getOk, putOk)])
    /\ UNCHANGED <<dbAvailable, snapshots, snapshotsQueue, settingsQueue, uiVars, engineVars,
                   parserVars>>

CallRemoveFromWhitelist(username, getOk, putOk) ==
    /\ Len(whitelistCalls) < MaxCalls
    /\ LET op == removeFromWhitelist(getWhitelist, username)
       IN  /\ settingsWhitelist' = Persisted(op, getOk, putOk)
           /\ whitelistCalls' = Append(whitelistCalls,
                 [op |-> [method |-> "removeFromWhitelist", username |-> username],
                  before |-> settingsWhitelist,
                  ok |-> Resolved(op, getOk, putOk)])
    /\ UNCHANGED <<dbAvailable, snapshots, snapshotsQueue, settingsQueue, uiVars, engineVars,
                   parserVars>>

WhitelistNext ==
    \/ \E username \in Names, getOk \in BOOLEAN, putOk \in BOOLEAN :
          CallAddToWhitelist(username, getOk, putOk)
    \/ \E username \in Names, getOk \in BOOLEAN, putOk \in BOOLEAN :
          CallRemoveFromWhitelist(username, getOk, putOk)

SpecWhitelist == WhitelistInit /\ [][WhitelistNext]_vars

(***************************************************************************)
(* The engine's contract, checked under SpecEngine.                        *)
(***************************************************************************)
\* the positions of a whose lower-cased username no element of b has
KeptPositions(a, b) ==
    {j \in DOMAIN a :
        \A k \in DOMAIN b : toLowerCase(a[j].username) # toLowerCase(b[k].username)}

\* res holds exactly the elements of a at the positions Kept, in a's order
IsRestriction(res, a, Kept) ==
    /\ Len(res) = Cardinality(Kept)
    /\ \A j \in Kept : res[Cardinality({m \in Kept : m <= j})] = a[j]

IsDifferenceByKey(res, a, b) == IsRestriction(res, a, KeptPositions(a, b))

\* the wrapped following export of the spec's example, normalized to [a, c]
FollowingWrappedAC ==
    JObj("relationships_following" :> JArr(<<Titled("a"), Titled("c")>>))

\* C7: findUnfollowers(previous, current) returns exactly the elements of
\* previous whose lower-cased username is the lower-cased username of no
\* element of current, in previous's order; for [a, b] and [a, c] it is [b].
C7_FindUnfollowers ==
    engineOp = "findUnfollowers" =>
        /\ IsDifferenceByKey(engineResult, argA, argB)
        /\ (argA = <<User("a", 0), User("b", 0)>> /\ argB = <<User("a", 0), User("c", 0)>>)
              => engineResult = <<User("b", 0)>>

C7_Witness ==
    /\ engineOp = "findUnfollowers"
    /\ argA = <<User("a", 0), User("b", 0)>>
    /\ argB = <<User("a", 0), User("c", 0)>>
    /\ engineResult = <<User("b", 0)>>

\* C8: findNewFollowers(previous, current) returns exactly the elements of
\* current whose lower-cased username is the lower-cased username of no
\* element of previous, in current's order; for [a, b] and [a, c] it is [c].
C8_FindNewFollowers ==
    engineOp = "findNewFollowers" =>
        /\ IsDifferenceByKey(engineResult, argB, argA)
        /\ (argA = <<User("a", 0), User("b", 0)>> /\ argB = <<User("a", 0), User("c", 0)>>)
              => engineResult = <<User("c", 0)>>

C8_Witness ==
    /\ engineOp = "findNewFollowers"
    /\ argA = <<User("a", 0), User("b", 0)>>
    /\ argB = <<User("a", 0), User("c", 0)>>
    /\ engineResult = <<User("c", 0)>>

\* C9: findNotFollowingBack(followers, following) returns exactly the
\* elements of following whose lower-cased username is the lower-cased
\* username of no element of followers, in following's order; for the
\* followers export normalized to [a, b] and the wrapped following export
\* normalized to [a, c] it returns exactly the record for c.
C9_FindNotFollowingBack ==
    engineOp = "findNotFollowingBack" =>
        /\ IsDifferenceByKey(engineResult, argB, argA)
        /\ (/\ argA = parseFollowers(FollowersAB).users
            /\ argB = parseFollowing(FollowingWrappedAC).users)
              => engineResult = <<User("c", 0)>>

C9_Witness ==
    /\ engineOp = "findNotFollowingBack"
    /\ argA = parseFollowers(FollowersAB).users
    /\ argB = parseFollowing(FollowingWrappedAC).users
    /\ Len(argA) = 2
    /\ Len(argB) = 2
    /\ engineResult = <<User("c", 0)>>

\* the argument the function called subtracts
Subtracted ==
    IF engineOp = "findUnfollowers" THEN argB ELSE argA

\* C10: in all three engine functions no element of the result has a
\* username that, lower-cased, equals the lower-cased username of an element
\* of the subtracted sequence.
C10_CaseInsensitive ==
    engineOp # "none" =>
        \A i \in DOMAIN engineResult : \A k \in DOMAIN Subtracted :
            toLowerCase(engineResult[i].username) # toLowerCase(Subtracted[k].username)

\* 'A' in a is excluded when 'a' is in b
C10_Witness ==
    /\ engineOp = "findUnfollowers"
    /\ argA = <<User("A", 0), User("b", 0)>>
    /\ argB = <<User("a", 0)>>
    /\ engineResult = <<User("b", 0)>>

\* the argument the function called filters
Filtered ==
    IF engineOp = "findUnfollowers" THEN argA ELSE argB

\* how many records of a sequence have the lower-cased username key
CountOfKey(users, key) ==
    Cardinality({i \in DOMAIN users : toLowerCase(users[i].username) = key})

\* C11: the engine filters and never deduplicates: when the filtered
\* sequence holds k records with one lower-cased username and the subtracted
\* sequence holds none with it, the result holds all k of them; two records
\* 'a' against the empty sequence give a result of length 2.
C11_NeverDeduplicates ==
    engineOp # "none" =>
        /\ \A j \in DOMAIN Filtered :
              LET key == toLowerCase(Filtered[j].username)
              IN  CountOfKey(Subtracted, key) = 0 =>
                      CountOfKey(engineResult, key) = CountOfKey(Filtered, key)
        /\ (Filtered = <<User("a", 0), User("a", 0)>> /\ Subtracted = <<>>) =>
              Len(engineResult) = 2

C11_Witness ==
    /\ engineOp = "findNotFollowingBack"
    /\ argA = <<>>
    /\ argB = <<User("a", 0), User("a", 0)>>
    /\ engineResult = <<User("a", 0), User("a", 0)>>

(***************************************************************************)
(* The parser's contract, checked under SpecParser.                        *)
(***************************************************************************)
\* the errors the parser throws itself: empty file, wrong top-level shape,
\* unrecognized element shape
ParseErrors == {"empty", "format", "unrecognized"}

\* a call failed with a parse/format error
IsParseError(r) == ~r.ok /\ r.error \in ParseErrors

\* C13: parseFollowers fails with a parse/format error for every top-level
\* value that is not a sequence and for every non-empty sequence whose first
\* element lacks both string_list_data and value; an empty sequence returns
\* an empty result.
C13_FollowersFormatErrors ==
    parserOp = "parseFollowers" =>
        \A n \in DOMAIN parseResults :
            /\ ~IsArray(jsonData) => IsParseError(parseResults[n])
            /\ (/\ IsArray(jsonData)
                /\ jsonData.items # <<>>
                /\ ~HasKey(jsonData.items[1], "string_list_data")
                /\ ~HasKey(jsonData.items[1], "value")) => IsParseError(parseResults[n])
            /\ (IsArray(jsonData) /\ jsonData.items = <<>>) =>
                  parseResults[n] = Returns(<<>>)

\* C14: parseFollowing fails with a parse/format error for every top-level
\* value that is neither a sequence nor an object whose
\* relationships_following holds a sequence.
C14_FollowingFormatErrors ==
    parserOp = "parseFollowing" =>
        \A n \in DOMAIN parseResults :
            (/\ ~IsArray(jsonData)
             /\ ~IsArray(Get(jsonData, "relationships_following"))) =>
                IsParseError(parseResults[n])

\* the elements of a following payload of either shape (none for another
\* top-level value)
FollowingItems ==
    IF IsArray(jsonData) THEN jsonData.items
    ELSE IF IsArray(Get(jsonData, "relationships_following"))
    THEN Get(jsonData, "relationships_following").items
    ELSE <<>>

\* C15: the parser fails closed on unrecognized element shapes anywhere: a
\* call returns a result only if every element of a followers sequence has a
\* string_list_data sequence, and every element of a following sequence or
\* wrapper has a title or a string_list_data.
C15_FailsClosedOnEveryElement ==
    \A n \in DOMAIN parseResults :
        parseResults[n].ok =>
            /\ (parserOp = "parseFollowers" /\ IsArray(jsonData)) =>
                  \A i \in DOMAIN jsonData.items :
                      IsArray(Get(jsonData.items[i], "string_list_data"))
            /\ parserOp = "parseFollowing" =>
                  \A i \in DOMAIN FollowingItems :
                      \/ HasKey(FollowingItems[i], "title")
                      \/ HasKey(FollowingItems[i], "string_list_data")

\* the positions of the entries of an element's string_list_data that hold
\* a value
ValuedEntries(item) ==
    LET sld == Get(item, "string_list_data")
    IN  IF IsArray(sld)
        THEN {e \in DOMAIN sld.items : HasKey(sld.items[e], "value")}
        ELSE {}

RECURSIVE SumFirst(_, _)
SumFirst(counts, n) == IF n = 0 THEN 0 ELSE SumFirst(counts, n - 1) + counts[n]

\* the records a following element stands for: one for a titled element,
\* one per valued entry otherwise
FollowingCounts ==
    [i \in DOMAIN FollowingItems |->
        IF HasKey(FollowingItems[i], "title") THEN 1
        ELSE Cardinality(ValuedEntries(FollowingItems[i]))]

\* the record of a titled element: its title, and the timestamp and href of
\* the first entry of its string_list_data, if any
TitledRecord(item) ==
    LET sld == Get(item, "string_list_data")
        first == IF IsArray(sld) /\ sld.items # <<>> THEN sld.items[1] ELSE JObj(<<>>)
    IN  [username |-> Get(item, "title").s,
         timestamp |-> IF HasKey(first, "timestamp") THEN Get(first, "timestamp").n ELSE 0,
         href |-> IF HasKey(first, "href") THEN Get(first, "href").s ELSE ""]

\* C16: in parseFollowing, in the bare and in the wrapped shape, every
\* element with a title yields exactly one record, whose username is the
\* title and whose timestamp and href are those of the first entry of its
\* string_list_data; the value entries of a titled element contribute no
\* record.
C16_TitleYieldsOneRecord ==
    parserOp = "parseFollowing" =>
        \A n \in DOMAIN parseResults :
            LET users == parseResults[n].users
            IN  parseResults[n].ok =>
                    /\ Len(users) = SumFirst(FollowingCounts, Len(FollowingItems))
                    /\ \A i \in DOMAIN FollowingItems :
                          HasKey(FollowingItems[i], "title") =>
                              users[SumFirst(FollowingCounts, i)] =
                                  TitledRecord(FollowingItems[i])

\* a titled element whose string_list_data holds a value entry was parsed,
\* in the wrapped shape after an untitled element, into the single record of
\* its title
C16_Witness ==
    /\ parserOp = "parseFollowing"
    /\ jsonData = JObj("relationships_following" :> JArr(<<
            JObj("string_list_data" :> JArr(<<Entry("a", 1)>>)),
            JObj(("title" :> JStr("c")) @@
                 ("string_list_data" :> JArr(<<Entry("a", 1)>>)))>>))
    /\ Len(parseResults) >= 1
    /\ parseResults[1] = Returns(<<User("a", 1), User("c", 1)>>)

\* a followers payload of the documented shape: a sequence whose elements
\* each have a string_list_data sequence of entries, each entry an object
\* optionally holding value, timestamp and href
IsFollowersShape ==
    /\ IsArray(jsonData)
    /\ \A i \in DOMAIN jsonData.items :
          LET sld == Get(jsonData.items[i], "string_list_data")
          IN  /\ IsArray(sld)
              /\ \A e \in DOMAIN sld.items : sld.items[e].t = "object"

FollowerCounts ==
    [i \in DOMAIN jsonData.items |-> Cardinality(ValuedEntries(jsonData.items[i]))]

\* the record of entry e of element item
EntryRecord(item, e) ==
    LET data == Get(item, "string_list_data").items[e]
    IN  [username |-> Get(data, "value").s,
         timestamp |-> IF HasKey(data, "timestamp") THEN Get(data, "timestamp").n ELSE 0,
         href |-> IF HasKey(data, "href") THEN Get(data, "href").s ELSE ""]

Entries(list) == {list[i] : i \in DOMAIN list}

NoDuplicates(list) == \A i, j \in DOMAIN list : list[i] = list[j] => i = j

\* the persisted whitelist a recorded call left behind
PersistedAfter(n) ==
    IF n < Len(whitelistCalls) THEN whitelistCalls[n + 1].before ELSE settingsWhitelist

\* C18: addToWhitelist and removeFromWhitelist mutate by the lower-cased
\* username and are idempotent: adding a name whose lower-cased form is
\* persisted, or removing one that is not, leaves the persisted whitelist
\* equal as a set; add(x) followed by add(X) leaves the whitelist a single
\* add(x) leaves; the persisted whitelist never holds a duplicate or an
\* entry that is not lower-cased.
C18_WhitelistIdempotent ==
    /\ NoDuplicates(settingsWhitelist)
    /\ \A i \in DOMAIN settingsWhitelist :
          toLowerCase(settingsWhitelist[i]) = settingsWhitelist[i]
    /\ \A n \in DOMAIN whitelistCalls :
          LET call == whitelistCalls[n]
              lowerUsername == toLowerCase(call.op.username)
              before == Entries(call.before)
              after == Entries(PersistedAfter(n))
              add == call.op.method = "addToWhitelist"
          IN  /\ (add /\ lowerUsername \in before) => after = before
              /\ (~add /\ lowerUsername \notin before) => after = before
              /\ (dbAvailable /\ call.ok) =>
                    after = IF add THEN before \cup {lowerUsername}
                            ELSE before \ {lowerUsername}
              /\ (/\ n < Len(whitelistCalls)
                  /\ add /\ call.ok
                  /\ whitelistCalls[n + 1].op.method = "addToWhitelist"
                  /\ toLowerCase(whitelistCalls[n + 1].op.username) = lowerUsername) =>
                    PersistedAfter(n + 1) = PersistedAfter(n)

\* add("a") then add("A") on an empty persisted whitelist left the single
\* entry "a"
C18_Witness ==
    /\ dbAvailable
    /\ Len(whitelistCalls) = 2
    /\ whitelistCalls[1] = [op |-> [method |-> "addToWhitelist", username |-> "a"],
                            before |-> <<>>, ok |-> TRUE]
    /\ whitelistCalls[2] = [op |-> [method |-> "addToWhitelist", username |-> "A"],
                            before |-> <<"a">>, ok |-> TRUE]
    /\ settingsWhitelist = <<"a">>

(***************************************************************************)
(* Analysis runs and the snapshot store, checked under Spec.               *)
(***************************************************************************)
\* the runs that appended a snapshot
Appended == {i \in DOMAIN runs : runs[i].savedId > 0}

\* what the store held just before run i's append
StoredBefore(i) == SubSeq(snapshots, 1, runs[i].savedId - 1)

\* C1: for every analysis run, the snapshot used as 'previous' is the most
\* recent snapshot stored before the run's own append (none when the store
\* was empty then), and never the snapshot the run itself appended.
C1_PreviousIsLastStoredBeforeAppend ==
    \A i \in Appended :
        LET before == StoredBefore(i)
            previous == runs[i].previousSnapshot
        IN  /\ previous.has = (before # <<>>)
            /\ previous.has => previous.snap = before[Len(before)]
            /\ previous.has => previous.snap.id # runs[i].savedId

\* C2: a run that finds no prior snapshot (an empty store, or no database)
\* ends with unfollowers and newFollowers empty and without a call of
\* findUnfollowers or findNewFollowers, and these are the results it stores
\* in currentData; data stored by loadSnapshot has both empty too.
C2_NoPriorSnapshotEmptyDifferentials ==
    /\ \A i \in DOMAIN runs :
          (runs[i].pc = "done" /\ runs[i].emptyAtRead) =>
              /\ runs[i].unfollowers = <<>>
              /\ runs[i].newFollowers = <<>>
              /\ ~runs[i].invoked
    /\ dataFrom = "analyzeData" =>
          \E i \in DOMAIN runs :
              /\ runs[i].pc = "done"
              /\ currentData.followers = runs[i].followers
              /\ currentData.unfollowers = runs[i].unfollowers
              /\ currentData.newFollowers = runs[i].newFollowers
    /\ dataFrom = "loadSnapshot" =>
          currentData.unfollowers = <<>> /\ currentData.newFollowers = <<>>

\* a run over a non-empty followers list found the store empty, and the
\* snapshot it saved was loaded afterwards
C2_Witness ==
    /\ dbAvailable
    /\ \E i \in DOMAIN runs :
          /\ runs[i].pc = "done"
          /\ runs[i].emptyAtRead
          /\ runs[i].followers # <<>>
          /\ runs[i].savedId = 1
    /\ dataFrom = "loadSnapshot"
    /\ currentData.followers # <<>>

\* C3: a storage failure never fails an analysis run: no run ends in the
\* catch block because its snapshot read or write failed.
C3_StorageFailureNeverFailsRun ==
    \A i \in DOMAIN runs :
        runs[i].pc = "failed" => runs[i].cause \notin {"read", "write"}

\* whether normalization of either payload of run i fails
NormalizationFails(i) ==
    \/ ~parseFollowers(runs[i].files.followers).ok
    \/ ~parseFollowing(runs[i].files.following).ok

\* C4: a run in which normalization of either payload fails appends no
\* snapshot: it ends failed without a saved id, and every snapshot stored in
\* this session was appended by a run whose payloads both normalized.
C4_NoSnapshotForFailedNormalization ==
    /\ \A i \in DOMAIN runs :
          NormalizationFails(i) =>
              runs[i].savedId = 0 /\ runs[i].pc = "failed" /\ runs[i].cause = "parse"
    /\ \A n \in DOMAIN snapshots :
          snapshots[n].date > 0 =>
              \E i \in DOMAIN runs : runs[i].savedId = n /\ ~NormalizationFails(i)

\* the followers payload normalized and the following payload did not, with
\* a database to save to
C4_Witness ==
    /\ dbAvailable
    /\ \E i \in DOMAIN runs :
          /\ parseFollowers(runs[i].files.followers).ok
          /\ ~parseFollowing(runs[i].files.following).ok
          /\ runs[i].pc = "failed"
    /\ \E i \in DOMAIN runs : runs[i].savedId > 0

\* C12: the snapshot log is append-only and its entries immutable: every
\* step keeps each stored snapshot in place, unchanged (same id, date,
\* followers and following), and no two stored snapshots share an id.
C12_AppendOnlyUniqueIds ==
    [][/\ Len(snapshots') >= Len(snapshots)
       /\ \A n \in DOMAIN snapshots : snapshots'[n] = snapshots[n]
       /\ \A m \in DOMAIN snapshots' : \A n \in DOMAIN snapshots' :
             m # n => snapshots'[m].id # snapshots'[n].id]_vars

\* two runs appended to a store that held a snapshot, and an older snapshot
\* was loaded afterwards
C12_Witness ==
    /\ Len(snapshots) = 3
    /\ snapshots[1] = EarlierSnapshot
    /\ {snapshots[n].id : n \in DOMAIN snapshots} = {1, 2, 3}
    /\ dataFrom = "loadSnapshot"
    /\ currentData.followers = EarlierSnapshot.followers
    /\ \A i \in DOMAIN runs : runs[i].pc = "done"

\* run i has called getLatestSnapshot and has not yet called saveSnapshot
BetweenReadAndAppend(i) == runs[i].pc = "awaitLatest"

\* C19: analysis runs are serialized: whatever the user does (clicks on
\* Analyze, on the Demo button with its delayed analyzeData), no two runs
\* are at once between their getLatestSnapshot read and their saveSnapshot
\* append, and so no two runs compute their differentials against the same
\* previous snapshot.
C19_RunsSerialized ==
    \A i, j \in DOMAIN runs :
        i # j =>
            /\ ~(BetweenReadAndAppend(i) /\ BetweenReadAndAppend(j))
            /\ (/\ runs[i].pc = "done" /\ runs[j].pc = "done"
                /\ runs[i].previousSnapshot.has /\ runs[j].previousSnapshot.has) =>
                  runs[i].previousSnapshot.snap.id # runs[j].previousSnapshot.snap.id

(***************************************************************************)
(* The headline count and the views.                                       *)
(***************************************************************************)
\* a step in which an analyzeData call reaches displayResults
AnalyzeDataCompleted ==
    \E i \in DOMAIN runs : runs[i].pc = "awaitSave" /\ runs'[i].pc = "done"

\* a step in which loadSnapshot runs
LoadSnapshotCompleted ==
    \/ AutoLoadLatestDone /\ getLatestSnapshot(snapshots).has
    \/ \E n \in 1..HistoryLimit : ClickLoadSnapshot(n)

\* a step in which a toggleWhitelist call returns
ToggleWhitelistCompleted ==
    \E k \in DOMAIN toggles :
        toggles[k].pc # "idle" /\ toggles'[k].pc = "idle" /\ whitelist' # whitelist

\* C5: where results are displayed, the headline 'not following back' count
\* is the number of records of the itemized 'not following back' view,
\* |N \ W| for the current result N and in-memory whitelist W: so it is after
\* analyzeData, after loadSnapshot and after every toggleWhitelist.
C5_HeadlineCountIsViewLength ==
    [][(AnalyzeDataCompleted \/ LoadSnapshotCompleted \/ ToggleWhitelistCompleted) =>
          (resultsShown' =>
              notFollowingBackCount' =
                  Len(TabUsers("notFollowingBack", currentData', whitelist')))]_vars

\* the positions of the current notFollowingBack result whose lower-cased
\* username is in the in-memory whitelist
WhitelistedPositions ==
    {j \in DOMAIN currentData.notFollowingBack :
        \E w \in DOMAIN whitelist :
            toLowerCase(whitelist[w]) = toLowerCase(currentData.notFollowingBack[j].username)}

\* C6: the 'notFollowingBack' view and the 'whitelist' view are a partition
\* of the notFollowingBack result N: the first holds exactly the records of
\* N that are not whitelisted, the second exactly those that are, compared
\* on lower-cased usernames, whatever whitelist additions and removals came
\* before; the rendered list is the view of the current tab.
C6_ViewsPartitionResult ==
    resultsShown =>
        LET N == currentData.notFollowingBack
            notFollowingBackView == TabUsers("notFollowingBack", currentData, whitelist)
            whitelistView == TabUsers("whitelist", currentData, whitelist)
        IN  /\ IsRestriction(notFollowingBackView, N, DOMAIN N \ WhitelistedPositions)
            /\ IsRestriction(whitelistView, N, WhitelistedPositions)
            /\ Len(notFollowingBackView) + Len(whitelistView) = Len(N)
            /\ currentTab = "notFollowingBack" => userList = notFollowingBackView
            /\ currentTab = "whitelist" => userList = whitelistView

\* 'd' was removed from the persisted whitelist ['d'] and 'c' added: each
\* view holds one of the two records
C6_Witness ==
    /\ resultsShown
    /\ Len(currentData.notFollowingBack) = 2
    /\ historyShown = 1
    /\ whitelist = <<"c">>
    /\ settingsWhitelist = <<"c">>
    /\ currentTab = "whitelist"
    /\ userList = <<User("c", 0)>>
    /\ TabUsers("notFollowingBack", currentData, whitelist) = <<User("D", 0)>>

\* C20: with storage available, once every toggleWhitelist call issued has
\* finished, whatever their interleaving (two toggles of different usernames
\* issued before the first one's write completes included), the persisted
\* whitelist and the in-memory whitelist hold the same set of names: no
\* toggle's update is lost.
C20_NoLostToggle ==
    (/\ dbAvailable
     /\ startup = {}
     /\ \A k \in DOMAIN toggles : toggles[k].pc = "idle") =>
        Entries(settingsWhitelist) = Entries(whitelist)

(***************************************************************************)
(* Startup, checked under Spec.                                            *)
(***************************************************************************)
\* the step in which the last of the constructor's un-awaited loadWhitelist
\* and autoLoadLatest calls finishes
StartupCompleted == startup # {} /\ startup' = {}

\* the records of the current notFollowingBack result whose lower-cased
\* username is not in the persisted whitelist
NotWhitelistedInStore ==
    {j \in DOMAIN currentData.notFollowingBack :
        ~Includes(settingsWhitelist, toLowerCase(currentData.notFollowingBack[j].username))}

\* C21: at startup, in whichever order the constructor's un-awaited
\* loadWhitelist and autoLoadLatest calls complete, once both have finished
\* the displayed 'not following back' view and the headline count exclude
\* every user of the persisted whitelist.
C21_StartupExcludesWhitelisted ==
    [][(StartupCompleted /\ resultsShown') =>
          /\ notFollowingBackCount' = Cardinality(NotWhitelistedInStore')
          /\ currentTab' = "notFollowingBack" =>
                \A n \in DOMAIN userList' :
                    ~Includes(settingsWhitelist', toLowerCase(userList'[n].username))]_vars

(***************************************************************************)
(* The slot processFile registers a payload in, checked under SpecUpload.  *)
(***************************************************************************)
\* an accepted following shape: the relationships_following wrapper, or a
\* bare sequence of elements with title and string_list_data
HasFollowingShape(data) ==
    \/ IsArray(Get(data, "relationships_following"))
    \/ /\ IsArray(data)
       /\ data.items # <<>>
       /\ \A i \in DOMAIN data.items :
             HasKey(data.items[i], "title") /\ HasKey(data.items[i], "string_list_data")

\* the followers shape: a sequence of elements with string_list_data, the
\* usernames in its entries
HasFollowersShape(data) ==
    /\ IsArray(data)
    /\ \A i \in DOMAIN data.items :
          HasKey(data.items[i], "string_list_data") /\ ~HasKey(data.items[i], "title")

\* C22: processFile registers a payload in the slot of its shape: a payload
\* of an accepted following shape sets uploadedFiles.following and leaves
\* uploadedFiles.followers unchanged, a followers-shaped payload sets
\* uploadedFiles.followers and leaves uploadedFiles.following unchanged.
C22_SlotMatchesShape ==
    [][\A data \in UploadPayloads :
          ProcessFile(data) =>
              /\ HasFollowingShape(data) =>
                    /\ uploadedFiles'.following = data
                    /\ uploadedFiles'.followers = uploadedFiles.followers
              /\ HasFollowersShape(data) =>
                    /\ uploadedFiles'.followers = data
                    /\ uploadedFiles'.following = uploadedFiles.following]_vars
====
